---- MODULE Spec2Model ----
(***************************************************************************)
(* Verification model of geomstats' Klein bottle manifold and its metric   *)
(* (geomstats/geometry/klein_bottle.py), of the Cholesky space and the     *)
(* unit-normed-rows space (positive_lower_triangular_matrices.py) and of   *)
(* the representations of symmetric matrices (symmetric_matrices.py).      *)
(* Each has its own specification: Spec, SpecCholesky, SpecDiffeo and      *)
(* SpecSymmetric, over the same variables.  The Klein bottle comes first.  *)
(*                                                                         *)
(* Coordinates are floating-point numbers.  The model keeps two levels of  *)
(* precision: the integer c stands for the real c / Unit (Unit is 1.0);    *)
(* numbers of magnitude Step (0.1) and more are multiples of Step, and     *)
(* below Step every integer is a number, down to Tiny, which stands for a  *)
(* magnitude under half an ulp of 1.0 (such as 1e-20).  Every arithmetic   *)
(* result is rounded to the nearest number (fl), as float64 rounds: 1.0    *)
(* minus Tiny is 1.0.  A point of R^2 is a pair <<x, y>>.  Every operation *)
(* of the library is a pure function; the state records the last call,     *)
(* its arguments and what it returned.                                     *)
(***************************************************************************)
EXTENDS Integers, Sequences, FiniteSets, TLC

VARIABLES
    call,         \* name of the last method called ("none" after construction)
    point,        \* argument point / point_a
    base_point,   \* argument base_point / point_b
    tangent_vec,  \* argument tangent_vec
    result        \* value returned by the last call

vars == <<call, point, base_point, tangent_vec, result>>

(***************************************************************************)
(* Number representation and input sets                                    *)
(***************************************************************************)
\* the literal 1.0
Unit == 1000

\* 0.1: from this magnitude on, numbers are multiples of Step
Step == Unit \div 10

\* a magnitude that 1.0 absorbs in a sum
Tiny == Unit \div 1000

\* gs.atol, the default tolerance 1e-12: far above Tiny, far below Step
gs_atol == Unit \div 100

\* largest magnitude of an input coordinate, in half units (4 is 2.0)
MaxHalf == 4

\* fractional parts of the magnitude of an input coordinate: .0, .3, .5, .8
Fracs == {0, 3 * Step, 5 * Step, 8 * Step}

\* input coordinates: -2.0, -1.8, -1.5, -1.3, ..., -0.3, 0, 0.3, 0.5, 0.8, ..., 2.0
\* and the two tiny numbers
Coords ==
    {c \in {Step * k : k \in (-MaxHalf * 5)..(MaxHalf * 5)} :
         (IF c < 0 THEN -c ELSE c) % Unit \in Fracs}
    \cup {-Tiny, Tiny}

Points == Coords \X Coords

Origin == <<0, 0>>

(***************************************************************************)
(* Array primitives of the gs backend, on fixed-point scalars               *)
(***************************************************************************)
\* gs.abs
abs(x) == IF x < 0 THEN -x ELSE x

\* rounding of an exact value to the nearest floating-point number
fl(v) ==
    IF abs(v) < Step THEN v ELSE Step * ((2 * v + Step) \div (2 * Step))

\* rounding of an exact squared value (unit Unit * Unit)
fl_sq(v) ==
    IF v < Step * Step THEN v
    ELSE (Step * Step) * ((2 * v + Step * Step) \div (2 * Step * Step))

\* a + b and a - b on floats
add(a, b) == fl(a + b)

sub(a, b) == fl(a - b)

\* gs.floor, in whole units
floor(x) == x \div Unit

\* a remainder that keeps the sign of the dividend (C fmod) instead of gs.mod
mod_truncated(x, divisor) ==
    IF x >= 0 THEN x % divisor ELSE 0 - ((0 - x) % divisor)

\* gs.mod: the result has the sign of the (positive) divisor; for a negative
\* x the remainder is shifted by the divisor, and that sum is rounded
mod(x, divisor) == fl(x % divisor)

\* gs.isclose against a tolerance
isclose(a, b, atol) == abs(sub(a, b)) <= atol

\* squared Euclidean norm of a difference: gs.sum((a - b) ** 2, axis=-1)
sq_dist(a, b) ==
    LET dx == sub(a[1], b[1])
        dy == sub(a[2], b[2])
    IN  fl_sq(dx * dx + dy * dy)

\* an argmin that returns the index of the last minimal entry
argmin_last(values) ==
    CHOOSE i \in DOMAIN values :
        /\ \A j \in DOMAIN values : values[i] <= values[j]
        /\ \A j \in DOMAIN values : j > i => values[j] > values[i]

\* gs.argmin over a non-empty sequence: index of the first minimal entry
argmin(values) ==
    CHOOSE i \in DOMAIN values :
        /\ \A j \in DOMAIN values : values[i] <= values[j]
        /\ \A j \in DOMAIN values : j < i => values[j] > values[i]

(***************************************************************************)
(* KleinBottle                                                             *)
(***************************************************************************)
\* a belongs that bounds the magnitude of the coordinates
belongs_abs(p) ==
    \A i \in 1..2 : abs(p[i]) <= Unit

\* KleinBottle.belongs
belongs(p) ==
    \A i \in 1..2 : p[i] >= 0 /\ p[i] <= Unit

\* module-level _is_close_mod
_is_close_mod(array, divisor, atol) ==
    \/ isclose(abs(array), 0, atol)
    \/ isclose(abs(array), divisor, atol)

\* equivalent with the mirrored x leg compared without reducing it modulo 2
equivalent_no_mod(point_a, point_b, atol) ==
    LET x_diff == sub(point_a[1], point_b[1])
        y_diff == sub(point_a[2], point_b[2])
        y_sum  == add(point_a[2], point_b[2])
        un_mirrored ==
            /\ _is_close_mod(mod(x_diff, 2 * Unit), 2 * Unit, atol)
            /\ _is_close_mod(mod(y_diff, Unit), Unit, atol)
        mirrored ==
            /\ _is_close_mod(sub(x_diff, Unit), 2 * Unit, atol)
            /\ _is_close_mod(mod(y_sum, Unit), Unit, atol)
    IN  un_mirrored \/ mirrored

\* equivalent with the mirrored leg testing the y difference, not the y sum
equivalent_y_diff(point_a, point_b, atol) ==
    LET x_diff == sub(point_a[1], point_b[1])
        y_diff == sub(point_a[2], point_b[2])
        un_mirrored ==
            /\ _is_close_mod(mod(x_diff, 2 * Unit), 2 * Unit, atol)
            /\ _is_close_mod(mod(y_diff, Unit), Unit, atol)
        mirrored ==
            /\ _is_close_mod(mod(sub(x_diff, Unit), 2 * Unit), 2 * Unit, atol)
            /\ _is_close_mod(mod(y_diff, Unit), Unit, atol)
    IN  un_mirrored \/ mirrored

\* KleinBottle.equivalent
equivalent(point_a, point_b, atol) ==
    LET x_diff == sub(point_a[1], point_b[1])
        y_diff == sub(point_a[2], point_b[2])
        y_sum  == add(point_a[2], point_b[2])
        un_mirrored ==
            /\ _is_close_mod(mod(x_diff, 2 * Unit), 2 * Unit, atol)
            /\ _is_close_mod(mod(y_diff, Unit), Unit, atol)
        mirrored ==
            /\ _is_close_mod(mod(sub(x_diff, Unit), 2 * Unit), 2 * Unit, atol)
            /\ _is_close_mod(mod(y_sum, Unit), Unit, atol)
    IN  un_mirrored \/ mirrored

\* regularize whose mirrored y is 1 - y, not reduced modulo 1 again
regularize_no_final_mod(p) ==
    LET num_steps        == abs(floor(p[1]))
        x_canonical      == mod(p[1], Unit)
        y_canonical_even == mod(p[2], Unit)
        y_canonical_odd  == sub(Unit, y_canonical_even)
    IN  IF num_steps % 2 = 0
        THEN <<x_canonical, y_canonical_even>>
        ELSE <<x_canonical, y_canonical_odd>>

\* regularize that never mirrors y, whatever the parity of the x steps
regularize_no_mirror(p) ==
    <<mod(p[1], Unit), mod(p[2], Unit)>>

\* KleinBottle.regularize
regularize(p) ==
    LET num_steps        == abs(floor(p[1]))
        x_canonical      == mod(p[1], Unit)
        y_canonical_even == mod(p[2], Unit)
        y_canonical_odd  == mod(sub(Unit, y_canonical_even), Unit)
        point_even       == <<x_canonical, y_canonical_even>>
        point_odd        == <<x_canonical, y_canonical_odd>>
    IN  IF num_steps % 2 = 0 THEN point_even ELSE point_odd

(***************************************************************************)
(* KleinBottleMetric                                                       *)
(***************************************************************************)
\* candidates whose 8th entry repeats the 7th (1 - y written for 2 - y)
p2_total_dup(p2) ==
    << <<p2[1], p2[2]>>,
       <<p2[1], sub(p2[2], Unit)>>,
       <<p2[1], add(p2[2], Unit)>>,
       <<add(p2[1], Unit), sub(Unit, p2[2])>>,
       <<add(p2[1], Unit), sub(2 * Unit, p2[2])>>,
       <<add(p2[1], Unit), sub(0, p2[2])>>,
       <<sub(p2[1], Unit), sub(Unit, p2[2])>>,
       <<sub(p2[1], Unit), sub(Unit, p2[2])>>,
       <<sub(p2[1], Unit), sub(0, p2[2])>> >>

\* the 9 candidates p2_total built from the regularized second point
p2_total(p2) ==
    << <<p2[1], p2[2]>>,
       <<p2[1], sub(p2[2], Unit)>>,
       <<p2[1], add(p2[2], Unit)>>,
       <<add(p2[1], Unit), sub(Unit, p2[2])>>,
       <<add(p2[1], Unit), sub(2 * Unit, p2[2])>>,
       <<add(p2[1], Unit), sub(0, p2[2])>>,
       <<sub(p2[1], Unit), sub(Unit, p2[2])>>,
       <<sub(p2[1], Unit), sub(2 * Unit, p2[2])>>,
       <<sub(p2[1], Unit), sub(0, p2[2])>> >>

\* KleinBottleMetric._closest_representative: <<p1, minimizers>>
_closest_representative(point1, point2) ==
    LET p1      == regularize(point1)
        p2      == regularize(point2)
        total   == p2_total(p2)
        indices == argmin(<<>> \o [k \in DOMAIN total |-> sq_dist(total[k], p1)])
    IN  <<p1, total[indices]>>

\* log with the arguments of _closest_representative exchanged
log_swapped(pt, base) ==
    LET rep == _closest_representative(pt, base)
    IN  <<sub(rep[2][1], rep[1][1]), sub(rep[2][2], rep[1][2])>>

\* KleinBottleMetric.log
log(pt, base) ==
    LET rep == _closest_representative(base, pt)
        base_point_canonical == rep[1]
        point_minimal        == rep[2]
    IN  <<sub(point_minimal[1], base_point_canonical[1]),
          sub(point_minimal[2], base_point_canonical[2])>>

\* KleinBottleMetric._closest_representative on a batch: point1 is broadcast
\* to the batch of point2, the 9 candidate arrays are stacked along a new
\* first axis, gs.argmin runs along that axis for each batch element, and the
\* loop picks minimizers[i] = p2_total[indices[i], i]
_closest_representative_batch(point1, point2) ==
    LET p1       == [i \in DOMAIN point2 |-> regularize(point1)]
        p2       == [i \in DOMAIN point2 |-> regularize(point2[i])]
        total    == [k \in 1..9 |-> [i \in DOMAIN point2 |-> p2_total(p2[i])[k]]]
        sums     == [k \in 1..9 |->
                        [i \in DOMAIN point2 |-> sq_dist(total[k][i], p1[i])]]
        indices  == [i \in DOMAIN point2 |-> argmin([k \in 1..9 |-> sums[k][i]])]
        minimizers == [i \in DOMAIN point2 |-> total[indices[i]][i]]
    IN  <<p1, minimizers>>

\* KleinBottleMetric.log on a batch of points and one base point
log_batch(pt, base) ==
    LET rep == _closest_representative_batch(base, pt)
        base_point_canonical == rep[1]
        point_minimal        == rep[2]
    IN  [i \in DOMAIN pt |->
            <<sub(point_minimal[i][1], base_point_canonical[i][1]),
              sub(point_minimal[i][2], base_point_canonical[i][2])>>]

\* points of a batch: on the grid, and such that several candidates are at
\* the same distance from some base points
BatchPoints ==
    {<<5 * Step, 0>>, <<0, 5 * Step>>, <<5 * Step, 5 * Step>>,
     <<-13 * Step, 8 * Step>>}

\* exp that adds the tangent vector to the base point as given
exp_raw_base(tv, base) ==
    regularize(<<add(base[1], tv[1]), add(base[2], tv[2])>>)

\* KleinBottleMetric.exp
exp(tv, base) ==
    LET base_point_canonical == regularize(base)
        pt == <<add(base_point_canonical[1], tv[1]),
                add(base_point_canonical[2], tv[2])>>
    IN  regularize(pt)

\* a radius of one whole wrap period instead of half of it
injectivity_radius_period(base) == Unit

\* KleinBottleMetric.injectivity_radius: 0.5 whatever the base point
injectivity_radius(base) == Unit \div 2

(***************************************************************************)
(* KleinBottle.is_tangent and KleinBottle.to_tangent look at the shape of  *)
(* their argument only.  An array is a record of its shape, a tuple of     *)
(* axis lengths, and of its entries in row-major order; what a call gives  *)
(* is a record telling whether it raised ValueError and, if it did not,    *)
(* the array it returned.                                                  *)
(***************************************************************************)
\* KleinBottle.shape, (2,)
KleinBottle_shape == <<2>>

\* KleinBottle.point_ndim
point_ndim == Len(KleinBottle_shape)

\* number of entries of an array of the given shape
RECURSIVE size(_)
size(shape) == IF shape = <<>> THEN 1 ELSE Head(shape) * size(Tail(shape))

\* shape[-k:]
last_axes(shape, k) ==
    IF Len(shape) <= k THEN shape ELSE SubSeq(shape, Len(shape) - k + 1, Len(shape))

\* get_batch_shape(point_ndim, vector, None): shape[:-point_ndim]
get_batch_shape(ndim, shape) ==
    IF Len(shape) <= ndim THEN <<>> ELSE SubSeq(shape, 1, Len(shape) - ndim)

\* gs.ones(shape, dtype=bool) and gs.zeros(shape, dtype=bool)
filled(shape, value) == [shape |-> shape, data |-> [i \in 1..size(shape) |-> value]]

\* gs.all
gs_all(arr) == \A i \in 1..Len(arr.data) : arr.data[i]

\* gs.copy
copy(arr) == [shape |-> arr.shape, data |-> [i \in 1..Len(arr.data) |-> arr.data[i]]]

\* repeat_out with no base point: the batch shape is the vector's own, and
\* out is returned as it is
repeat_out(out, vector) == out

\* an is_tangent that compares the whole shape of the vector with (2,)
is_tangent_whole_shape(vector) ==
    IF KleinBottle_shape = vector.shape
    THEN filled(get_batch_shape(point_ndim, vector.shape), TRUE)
    ELSE filled(get_batch_shape(point_ndim, vector.shape), FALSE)

\* KleinBottle.is_tangent
is_tangent(vector) ==
    LET belongs_ == KleinBottle_shape = last_axes(vector.shape, point_ndim)
        shape    == get_batch_shape(point_ndim, vector.shape)
    IN  IF belongs_ THEN filled(shape, TRUE) ELSE filled(shape, FALSE)

\* KleinBottle.to_tangent
to_tangent(vector) ==
    IF ~gs_all(is_tangent(vector))
    THEN [raised |-> TRUE, value |-> "ValueError"]
    ELSE [raised |-> FALSE, value |-> repeat_out(copy(vector), vector)]

\* largest number of vectors in a batch
MaxBatch == 2

\* shapes of the arrays handed in: a scalar, a vector of 1 to 3 entries, a
\* batch of 0 to MaxBatch such vectors
Shapes ==
    {<<>>} \cup {<<k>> : k \in 1..3}
           \cup {<<b, k>> : b \in 0..MaxBatch, k \in 1..3}

Arrays ==
    UNION {{[shape |-> sh, data |-> d] : d \in [1..size(sh) -> {0, 5 * Step}]} :
           sh \in Shapes}

(***************************************************************************)
(* State machine.  A base point is at hand from the start; each action is  *)
(* one call of a method, on the base point and further arguments drawn     *)
(* from the input sets, and records the arguments the call took and the    *)
(* value it returned.                                                      *)
(***************************************************************************)
Init ==
    /\ call = "none"
    /\ base_point \in Points
    /\ point = Origin
    /\ tangent_vec = Origin
    /\ result = Origin

\* space.regularize(p)
Regularize ==
    /\ call = "none"
    /\ \E p \in Points :
        /\ call' = "regularize"
        /\ point' = p
        /\ base_point' = Origin
        /\ result' = regularize(p)
        /\ UNCHANGED tangent_vec

\* space.belongs(p)
Belongs ==
    /\ call = "none"
    /\ \E p \in Points :
        /\ call' = "belongs"
        /\ point' = p
        /\ base_point' = Origin
        /\ result' = belongs(p)
        /\ UNCHANGED tangent_vec

\* KleinBottle.equivalent(a, base_point) with the default tolerance
Equivalent ==
    /\ call = "none"
    /\ \E a \in Points :
        /\ call' = "equivalent"
        /\ point' = a
        /\ result' = equivalent(a, base_point, gs_atol)
        /\ UNCHANGED <<base_point, tangent_vec>>

\* metric.exp(v, base_point)
Exp ==
    /\ call = "none"
    /\ \E v \in Points :
        /\ call' = "exp"
        /\ tangent_vec' = v
        /\ result' = exp(v, base_point)
        /\ UNCHANGED <<base_point, point>>

\* metric.log(p, base_point)
Log ==
    /\ call = "none"
    /\ \E p \in Points :
        /\ call' = "log"
        /\ point' = p
        /\ result' = log(p, base_point)
        /\ UNCHANGED <<base_point, tangent_vec>>

\* metric.injectivity_radius(base_point)
InjectivityRadius ==
    /\ call = "none"
    /\ call' = "injectivity_radius"
    /\ result' = injectivity_radius(base_point)
    /\ UNCHANGED <<base_point, point, tangent_vec>>

\* space.is_tangent(vector), the vector kept in tangent_vec
IsTangent ==
    /\ call = "none"
    /\ \E vector \in Arrays :
        /\ call' = "is_tangent"
        /\ tangent_vec' = vector
        /\ base_point' = Origin
        /\ result' = [raised |-> FALSE, value |-> is_tangent(vector)]
    /\ UNCHANGED point

\* space.to_tangent(vector), the vector kept in tangent_vec
ToTangent ==
    /\ call = "none"
    /\ \E vector \in Arrays :
        /\ call' = "to_tangent"
        /\ tangent_vec' = vector
        /\ base_point' = Origin
        /\ result' = to_tangent(vector)
    /\ UNCHANGED point

\* metric.log(point, base_point) for a batch of two points
LogBatch ==
    /\ call = "none"
    /\ \E p \in BatchPoints \X BatchPoints :
        /\ call' = "log_batch"
        /\ point' = p
        /\ result' = log_batch(p, base_point)
    /\ UNCHANGED <<base_point, tangent_vec>>

Next ==
    \/ Regularize
    \/ Belongs
    \/ Equivalent
    \/ Exp
    \/ Log
    \/ InjectivityRadius
    \/ IsTangent
    \/ ToTangent
    \/ LogBatch

Spec == Init /\ [][Next]_vars

(***************************************************************************)
(* PositiveLowerTriangularMatrices and CholeskyMetric                      *)
(* (geomstats/geometry/positive_lower_triangular_matrices.py).             *)
(*                                                                         *)
(* The Cholesky metric takes exponentials and logarithms of diagonal       *)
(* entries, so an entry here is the real number q * e^k, kept as the       *)
(* record [q, k] of two integers (zero is [0, 0]).  Products and quotients *)
(* of such numbers, the exponential of an integer and the logarithm of a   *)
(* power of e are again such numbers and are computed exactly; sums are    *)
(* taken of numbers with the same power of e.  The input sets below keep   *)
(* every operation inside this number system.  A matrix is a function on   *)
(* the index pairs <<i, j>>, row i and column j counted from 1.            *)
(***************************************************************************)
sc(q, k) == IF q = 0 THEN [q |-> 0, k |-> 0] ELSE [q |-> q, k |-> k]

Zero == sc(0, 0)

One == sc(1, 0)

\* size of the matrices of the space (the constructor argument n)
N == 2

Idx == (1..N) \X (1..N)

\* largest power of e (and its inverse) among the diagonal entries
MaxExp == 1

\* gs.atol, 1e-12, stands as e^-28 (6.9e-13)
atol_exp == -28

atol == sc(1, atol_exp)

\* x + y
plus(x, y) ==
    IF x.q = 0 THEN y
    ELSE IF y.q = 0 THEN x
    ELSE sc(x.q + y.q, x.k)

\* x - y
minus(x, y) == plus(x, sc(-y.q, y.k))

\* x * y
times(x, y) == sc(x.q * y.q, x.k + y.k)

\* gs.divide(x, y), for y a power of e up to sign
divide(x, y) == sc(x.q * y.q, x.k - y.k)

\* gs.exp of an integer
gs_exp(x) == sc(1, x.q)

\* gs.log of a power of e
gs_log(x) == sc(x.k, 0)

\* gs.abs
gs_abs(x) == sc(abs(x.q), x.k)

\* x < y, for numbers that are zero or plus or minus a power of e
less(x, y) ==
    IF x.q > 0 /\ y.q > 0 THEN x.k < y.k
    ELSE IF x.q < 0 /\ y.q < 0 THEN x.k > y.k
    ELSE x.q < y.q

\* Matrices.diagonal
diagonal(mat) == [i \in 1..N |-> mat[i, i]]

\* gs.vec_to_diag
vec_to_diag(vec) == [i \in 1..N, j \in 1..N |-> IF i = j THEN vec[i] ELSE Zero]

\* gs.tril(mat, k=-1), Matrices.to_strictly_lower_triangular
to_strictly_lower_triangular(mat) ==
    [i \in 1..N, j \in 1..N |-> IF i > j THEN mat[i, j] ELSE Zero]

\* elementwise sum and difference of two matrices
mat_plus(a, b) == [i \in 1..N, j \in 1..N |-> plus(a[i, j], b[i, j])]

mat_minus(a, b) == [i \in 1..N, j \in 1..N |-> minus(a[i, j], b[i, j])]

\* gs.sum of the squares of the entries of a vector or a matrix
RECURSIVE sum_sq(_, _)
sum_sq(arr, dom) ==
    IF dom = {} THEN Zero
    ELSE LET d == CHOOSE d \in dom : TRUE
         IN  plus(times(arr[d], arr[d]), sum_sq(arr, dom \ {d}))

\* LowerTriangularMatrices.belongs: nothing above the diagonal, up to atol
is_lower_triangular(mat, tol) ==
    \A i \in 1..N, j \in 1..N : i < j => ~less(tol, gs_abs(mat[i, j]))

\* PositiveLowerTriangularMatrices.belongs
PLT_belongs(mat) ==
    /\ is_lower_triangular(mat, atol)
    /\ \A i \in 1..N : less(Zero, diagonal(mat)[i])

\* projection that keeps a diagonal entry below atol as it is
projection_no_floor(mat) ==
    mat_plus(vec_to_diag([i \in 1..N |-> gs_abs(diagonal(mat)[i])]),
             to_strictly_lower_triangular(mat))

\* PositiveLowerTriangularMatrices.projection
projection(mat) ==
    LET vec_diag  == [i \in 1..N |-> gs_abs(diagonal(mat)[i])]
        vec_diag_ == [i \in 1..N |->
                         IF less(vec_diag[i], atol) THEN atol ELSE vec_diag[i]]
    IN  mat_plus(vec_to_diag(vec_diag_), to_strictly_lower_triangular(mat))

\* an exponential that moves the diagonal along a straight line
Cholesky_exp_linear(tv, base) ==
    mat_plus(mat_plus(to_strictly_lower_triangular(base),
                      to_strictly_lower_triangular(tv)),
             vec_to_diag([i \in 1..N |-> plus(diagonal(base)[i], diagonal(tv)[i])]))

\* CholeskyMetric.exp
Cholesky_exp(tv, base) ==
    LET sl_base_point     == to_strictly_lower_triangular(base)
        sl_tangent_vec    == to_strictly_lower_triangular(tv)
        diag_base_point   == diagonal(base)
        diag_tangent_vec  == diagonal(tv)
        diag_product_expm == [i \in 1..N |->
            gs_exp(divide(diag_tangent_vec[i], diag_base_point[i]))]
        sl_exp   == mat_plus(sl_base_point, sl_tangent_vec)
        diag_exp == vec_to_diag([i \in 1..N |->
            times(diag_base_point[i], diag_product_expm[i])])
    IN  mat_plus(sl_exp, diag_exp)

\* a logarithm that forgets to scale the diagonal by the base point's
Cholesky_log_no_scale(pt, base) ==
    mat_plus(mat_minus(to_strictly_lower_triangular(pt),
                       to_strictly_lower_triangular(base)),
             vec_to_diag([i \in 1..N |->
                 gs_log(divide(diagonal(pt)[i], diagonal(base)[i]))]))

\* CholeskyMetric.log
Cholesky_log(pt, base) ==
    LET sl_base_point     == to_strictly_lower_triangular(base)
        sl_point          == to_strictly_lower_triangular(pt)
        diag_base_point   == diagonal(base)
        diag_point        == diagonal(pt)
        diag_product_logm == [i \in 1..N |->
            gs_log(divide(diag_point[i], diag_base_point[i]))]
        sl_log   == mat_minus(sl_point, sl_base_point)
        diag_log == vec_to_diag([i \in 1..N |->
            times(diag_base_point[i], diag_product_logm[i])])
    IN  mat_plus(sl_log, diag_log)

\* a squared distance that looks at the diagonals only
squared_dist_diag_only(point_a, point_b) ==
    sum_sq([i \in 1..N |-> minus(gs_log(diagonal(point_a)[i]),
                                 gs_log(diagonal(point_b)[i]))], 1..N)

\* CholeskyMetric.squared_dist
squared_dist(point_a, point_b) ==
    LET log_diag_a == [i \in 1..N |-> gs_log(diagonal(point_a)[i])]
        log_diag_b == [i \in 1..N |-> gs_log(diagonal(point_b)[i])]
        diag_diff  == [i \in 1..N |-> minus(log_diag_a[i], log_diag_b[i])]
        squared_dist_diag == sum_sq(diag_diff, 1..N)
        sl_diff == mat_minus(to_strictly_lower_triangular(point_a),
                             to_strictly_lower_triangular(point_b))
        squared_dist_sl == sum_sq(sl_diff, Idx)
    IN  plus(squared_dist_sl, squared_dist_diag)

(***************************************************************************)
(* Inputs and state machine of the Cholesky space.  Exponents of diagonal  *)
(* entries range over -MaxExp..MaxExp; entries off the diagonal are small  *)
(* integers, and an entry above the diagonal may be non-zero, which makes  *)
(* a matrix that is not lower triangular.                                  *)
(***************************************************************************)
Exps == (-MaxExp)..MaxExp

PosDiag == {sc(1, k) : k \in Exps}

AnyDiag == {sc(q, k) : q \in {-1, 0, 1}, k \in Exps \cup {atol_exp - 1}}

Lowers == {sc(-1, 0), Zero, sc(2, 0)}

Uppers == {Zero, One}

LowerIdx == {ij \in Idx : ij[1] > ij[2]}

UpperIdx == {ij \in Idx : ij[1] < ij[2]}

\* the matrix of the given diagonal, lower and upper entries
build(diag, lower, upper) ==
    [i \in 1..N, j \in 1..N |->
        IF i = j THEN diag[i]
        ELSE IF i > j THEN lower[<<i, j>>]
        ELSE upper[<<i, j>>]]

\* matrices with a positive diagonal: points of the space when nothing lies
\* above the diagonal
PosMats ==
    {build(diag, lower, upper) :
        diag \in [1..N -> PosDiag],
        lower \in [LowerIdx -> Lowers],
        upper \in [UpperIdx -> Uppers]}

\* arbitrary square matrices: zero, negative and tiny diagonal entries
AnyMats ==
    {build(diag, lower, upper) :
        diag \in [1..N -> AnyDiag],
        lower \in [LowerIdx -> Lowers],
        upper \in [UpperIdx -> Uppers]}

\* tangent matrices at base: each diagonal entry an integer multiple of the
\* base point's
TangentMats(base) ==
    {build([i \in 1..N |-> sc(mult[i], base[i, i].k)], lower, upper) :
        mult \in [1..N -> (-MaxExp - 1)..MaxExp],
        lower \in [LowerIdx -> Lowers],
        upper \in [UpperIdx -> Uppers]}

Identity == vec_to_diag([i \in 1..N |-> One])

InitCholesky ==
    /\ call = "none"
    /\ base_point \in PosMats
    /\ point = Identity
    /\ tangent_vec = Identity
    /\ result = Identity

\* space.belongs(point)
CholBelongs ==
    /\ call = "none"
    /\ \E mat \in AnyMats :
        /\ call' = "belongs"
        /\ point' = mat
        /\ base_point' = Identity
        /\ result' = PLT_belongs(mat)
    /\ UNCHANGED tangent_vec

\* space.projection(point)
Projection ==
    /\ call = "none"
    /\ \E mat \in AnyMats :
        /\ call' = "projection"
        /\ point' = mat
        /\ base_point' = Identity
        /\ result' = projection(mat)
    /\ UNCHANGED tangent_vec

\* metric.exp(tangent_vec, base_point)
CholExp ==
    /\ call = "none"
    /\ \E tv \in TangentMats(base_point) :
        /\ call' = "exp"
        /\ tangent_vec' = tv
        /\ result' = Cholesky_exp(tv, base_point)
    /\ UNCHANGED <<base_point, point>>

\* metric.log(point, base_point)
CholLog ==
    /\ call = "none"
    /\ \E pt \in PosMats :
        /\ call' = "log"
        /\ point' = pt
        /\ result' = Cholesky_log(pt, base_point)
    /\ UNCHANGED <<base_point, tangent_vec>>

\* metric.squared_dist(point_a, point_b), point_b being the base point
SquaredDist ==
    /\ call = "none"
    /\ \E pt \in PosMats :
        /\ call' = "squared_dist"
        /\ point' = pt
        /\ result' = squared_dist(pt, base_point)
    /\ UNCHANGED <<base_point, tangent_vec>>

NextCholesky ==
    \/ CholBelongs
    \/ Projection
    \/ CholExp
    \/ CholLog
    \/ SquaredDist

SpecCholesky == InitCholesky /\ [][NextCholesky]_vars

(***************************************************************************)
(* UnitNormedRowsPLTDiffeo and UnitNormedRowsPLTMatrices                   *)
(* (geomstats/geometry/positive_lower_triangular_matrices.py).             *)
(*                                                                         *)
(* The diffeomorphism moves entries around and takes no exponential, and   *)
(* rows of unit norm need entries such as 0.6 and 0.8, so entries here are *)
(* the fixed-point numbers of the Klein bottle model (Unit is 1.0).        *)
(* Arrays are indexed from 0 as in the source: a vector is a function on   *)
(* 0..len-1 and an n x n matrix a function on the pairs <<i, j>> of        *)
(* 0..n-1.  The matrix size n, the attribute self.n, is passed along.      *)
(***************************************************************************)
len(arr) == Cardinality(DOMAIN arr)

\* gs.concatenate of two vectors
concatenate(a, b) ==
    [i \in 0..(len(a) + len(b) - 1) |-> IF i < len(a) THEN a[i] ELSE b[i - len(a)]]

\* gs.flip(vec, axis=-1)
flip(vec) == [i \in DOMAIN vec |-> vec[len(vec) - 1 - i]]

\* the pieces flip(base_point[i, :i+1]) for i in range(from, n), concatenated
RECURSIVE flipped_rows(_, _, _)
flipped_rows(mat, from, n) ==
    IF from >= n THEN <<>>
    ELSE concatenate(flip([j \in 0..from |-> mat[from, j]]),
                     flipped_rows(mat, from + 1, n))

\* UnitNormedRowsPLTDiffeo.diffeomorphism
diffeomorphism(mat, n) == flipped_rows(mat, 1, n)

\* gs.tril_indices(n) zipped: the list of the pairs (row, column) of the
\* lower triangle, row by row
RECURSIVE tril_indices(_)
tril_indices(n) ==
    IF n = 0 THEN <<>>
    ELSE tril_indices(n - 1) \o [c \in 1..n |-> <<n - 1, c - 1>>]

\* the index list left in the order of gs.tril_indices
unsorted(indices) == indices

\* puts x, which stood before all of them, into a list sorted by decreasing
\* row: before the first pair whose row is not above its own
RECURSIVE insert_by_row(_, _)
insert_by_row(x, indices) ==
    IF indices = <<>> THEN <<x>>
    ELSE IF Head(indices)[1] <= x[1] THEN <<x>> \o indices
    ELSE <<Head(indices)>> \o insert_by_row(x, Tail(indices))

\* sorted(indices, key=lambda x: x[0], reverse=True): a stable sort, so
\* rows come in decreasing order and each row keeps its order of columns
RECURSIVE sorted_by_row_reversed(_)
sorted_by_row_reversed(indices) ==
    IF indices = <<>> THEN <<>>
    ELSE insert_by_row(Head(indices), sorted_by_row_reversed(Tail(indices)))

\* gs.array_from_sparse(indices, data, (n, n)): data[p] goes to the entry
\* that the p-th pair of the list names, the other entries are zero
array_from_sparse(indices, data, n) ==
    [i \in 0..(n - 1), j \in 0..(n - 1) |->
        IF \E p \in 1..Len(indices) : indices[p] = <<i, j>>
        THEN data[(CHOOSE p \in 1..Len(indices) : indices[p] = <<i, j>>) - 1]
        ELSE 0]

\* UnitNormedRowsPLTDiffeo._from_product_to_mat; the index list is built
\* once and then scattered from
_from_product_to_mat(vec, ones, n) ==
    LET flipped_vec  == flip(vec)
        first        == IF ones THEN Unit ELSE 0
        flipped_vec_ == concatenate(flipped_vec, [i \in 0..0 |-> first])
    IN  CHOOSE mat \in {array_from_sparse(indices, flipped_vec_, n) :
                           indices \in {sorted_by_row_reversed(tril_indices(n))}} :
            TRUE

(***************************************************************************)
(* _from_product_to_mat on a batch.  A batched array is a record of its    *)
(* shape and of its entries in row-major order, counted from 0; the index  *)
(* tuples handed to gs.array_from_sparse are sequences (k1, ..., i, j).    *)
(***************************************************************************)
\* vec.shape[:-1]
batch_shape_of(arr) == SubSeq(arr.shape, 1, Len(arr.shape) - 1)

\* vec.shape[-1]
last_axis(arr) == arr.shape[Len(arr.shape)]

\* gs.flip(vec, axis=-1) on a batch: each vector is reversed in its place
flip_last_axis(arr) ==
    [shape |-> arr.shape,
     data  |-> [p \in 0..(size(arr.shape) - 1) |->
                   arr.data[(p \div last_axis(arr)) * last_axis(arr)
                            + (last_axis(arr) - 1 - (p % last_axis(arr)))]]]

\* gen_first(batch_shape + (1,)): gs.ones or gs.zeros
gen_first(ones, shape) ==
    [shape |-> shape,
     data  |-> [p \in 0..(size(shape) - 1) |-> IF ones THEN Unit ELSE 0]]

\* gs.concatenate([a, b], axis=-1) of two arrays of the same batch shape
concatenate_last_axis(a, b) ==
    LET la    == last_axis(a)
        lb    == last_axis(b)
        batch == batch_shape_of(a)
    IN  [shape |-> batch \o <<la + lb>>,
         data  |-> [p \in 0..(size(batch) * (la + lb) - 1) |->
                       IF (p % (la + lb)) < la
                       THEN a.data[(p \div (la + lb)) * la + (p % (la + lb))]
                       ELSE b.data[(p \div (la + lb)) * lb + (p % (la + lb)) - la]]]

\* gs.flatten
flatten(arr) == arr.data

\* the list comprehension with its two loops exchanged:
\* [(k,) + indices_ for indices_ in indices for k in range(n_batch)]
batch_indices_inner(n_batch, indices) ==
    <<>> \o [q \in 1..(n_batch * Len(indices)) |->
                <<(q - 1) % n_batch>> \o indices[((q - 1) \div n_batch) + 1]]

\* [(k,) + indices_ for k in range(n_batch) for indices_ in indices], built
\* as a list
batch_indices(n_batch, indices) ==
    <<>> \o [q \in 1..(n_batch * Len(indices)) |->
                <<(q - 1) \div Len(indices)>> \o indices[((q - 1) % Len(indices)) + 1]]

\* for n_batch in reversed(batch_shape): indices = [...]
RECURSIVE batched_indices(_, _)
batched_indices(indices, batch_shape) ==
    IF batch_shape = <<>> THEN indices
    ELSE batched_indices(batch_indices(batch_shape[Len(batch_shape)], indices),
                         SubSeq(batch_shape, 1, Len(batch_shape) - 1))

\* the place of the entry with the given index tuple in the row-major order
\* of an array of the given shape
RECURSIVE ravel_multi_index(_, _)
ravel_multi_index(index, shape) ==
    IF index = <<>> THEN 0
    ELSE ravel_multi_index(SubSeq(index, 1, Len(index) - 1),
                           SubSeq(shape, 1, Len(shape) - 1)) * shape[Len(shape)]
         + index[Len(index)]

\* gs.array_from_sparse(indices, data, target_shape) for any number of axes:
\* data[p] is placed at the position that the p-th index tuple names, the
\* other entries are zero
array_from_sparse_batch(indices, data, target_shape) ==
    CHOOSE arr \in
        {[shape |-> target_shape,
          data  |-> [pos \in 0..(size(target_shape) - 1) |->
                        IF \E pl \in placed : pl[1] = pos
                        THEN (CHOOSE pl \in placed : pl[1] = pos)[2]
                        ELSE 0]] :
         placed \in {{<<ravel_multi_index(indices[p], target_shape), data[p - 1]>> :
                         p \in 1..Len(indices)}}} :
        TRUE

\* UnitNormedRowsPLTDiffeo._from_product_to_mat with the batch axes of vec
_from_product_to_mat_batch(vec, ones, n) ==
    LET flipped_vec  == flip_last_axis(vec)
        batch_shape  == batch_shape_of(vec)
        first        == gen_first(ones, batch_shape \o <<1>>)
        flipped_vec_ == concatenate_last_axis(flipped_vec, first)
    IN  CHOOSE mat \in {array_from_sparse_batch(indices, flatten(flipped_vec_),
                                                batch_shape \o <<n, n>>) :
                           indices \in {batched_indices(
                                            sorted_by_row_reversed(tril_indices(n)),
                                            batch_shape)}} :
            TRUE

\* UnitNormedRowsPLTDiffeo.inverse_diffeomorphism
inverse_diffeomorphism(image_point, n) == _from_product_to_mat(image_point, TRUE, n)

\* UnitNormedRowsPLTDiffeo.tangent_diffeomorphism
tangent_diffeomorphism(tv, base, n) == diffeomorphism(tv, n)

\* an inverse tangent map that appends a one, as the inverse point map does
inverse_tangent_diffeomorphism_ones(image_tangent_vec, image_point, n) ==
    _from_product_to_mat(image_tangent_vec, TRUE, n)

\* UnitNormedRowsPLTDiffeo.inverse_tangent_diffeomorphism
inverse_tangent_diffeomorphism(image_tangent_vec, image_point, n) ==
    _from_product_to_mat(image_tangent_vec, FALSE, n)

\* sum of the squares of the entries of a vector
RECURSIVE sq_norm(_, _)
sq_norm(vec, upto) ==
    IF upto < 0 THEN 0 ELSE vec[upto] * vec[upto] + sq_norm(vec, upto - 1)

\* PositiveLowerTriangularMatrices.belongs, on fixed-point entries: lower
\* triangular up to atol, diagonal above zero
embedding_space_belongs(mat, n) ==
    /\ \A i \in 0..(n - 1), j \in 0..(n - 1) : i < j => abs(mat[i, j]) <= gs_atol
    /\ \A i \in 0..(n - 1) : mat[i, i] > 0

\* belongs of the image space, a product of hemispheres: the piece of the
\* image point that stands for row i (from offset, i + 1 entries) has unit norm
RECURSIVE image_space_belongs(_, _, _, _)
image_space_belongs(image_point, offset, i, n) ==
    IF i >= n THEN TRUE
    ELSE /\ isclose(sq_norm([j \in 0..i |-> image_point[offset + j]], i),
                    Unit * Unit, gs_atol * Unit)
         /\ image_space_belongs(image_point, offset + i + 1, i + 1, n)

\* UnitNormedRowsPLTMatrices.belongs
UnitNormedRows_belongs(mat, n) ==
    LET is_plt         == embedding_space_belongs(mat, n)
        is_unit_normed == image_space_belongs(diffeomorphism(mat, n), 0, 1, n)
    IN  is_plt /\ is_unit_normed

(***************************************************************************)
(* Inputs and state machine of the unit-normed-rows space.  The space has  *)
(* the size of the base point at hand, 2 to MaxN.  A row of a matrix is    *)
(* (0, ..., 0, 1), (0.6, 0, ..., 0.8), (0, ..., -0.8, 0.6), all of unit    *)
(* norm, or (0.3, 0, ..., 0.3); the entry [0, 0] is 1 or 2; one entry      *)
(* above the diagonal may be non-zero.                                     *)
(***************************************************************************)
MaxN == 3

n_of(mat) == CHOOSE n \in 1..len(mat) : n * n = len(mat)

RowKinds == {"unit", "first", "last", "short"}

row_of(kind, i) ==
    [j \in 0..i |->
        IF kind = "unit" THEN (IF j = i THEN Unit ELSE 0)
        ELSE IF kind = "first" THEN
            (IF j = i THEN 8 * Step ELSE IF j = 0 THEN 6 * Step ELSE 0)
        ELSE IF kind = "last" THEN
            (IF j = i THEN 6 * Step ELSE IF j = i - 1 THEN -8 * Step ELSE 0)
        ELSE (IF j = i THEN 3 * Step ELSE IF j = 0 THEN 3 * Step ELSE 0)]

Mats(n) ==
    {[i \in 0..(n - 1), j \in 0..(n - 1) |->
         IF i = 0 /\ j = 0 THEN head
         ELSE IF j <= i THEN row_of(kinds[i], i)[j]
         ELSE IF i = 0 /\ j = n - 1 THEN upper
         ELSE 0] :
     head \in {Unit, 2 * Unit}, upper \in {0, Step},
     kinds \in [1..(n - 1) -> RowKinds]}

\* tangent-like matrices: the matrix with entries 0.0, 0.1, 0.2, ... along
\* the lower triangle, and the matrices with one non-zero entry in the lower
\* triangle or in the upper right corner, alone or next to a second one in
\* the lower left corner
Ramp(n) ==
    [i \in 0..(n - 1), j \in 0..(n - 1) |->
        IF j <= i THEN ((i * (i + 1)) \div 2 + j) * Step ELSE 0]

Slots(n) ==
    {rc \in (0..(n - 1)) \X (0..(n - 1)) : rc[2] <= rc[1]} \cup {<<0, n - 1>>}

Sparse(n, count) ==
    {[i \in 0..(n - 1), j \in 0..(n - 1) |->
         IF <<i, j>> = s1 THEN 3 * Step
         ELSE IF <<i, j>> = s2 /\ count = 2 THEN -Unit
         ELSE 0] :
     s1 \in Slots(n), s2 \in {<<n - 1, 0>>}}

Tangents(n) == {Ramp(n)} \cup Sparse(n, 1) \cup Sparse(n, 2)

\* largest length of a batch axis
MaxBatchLen == 2

\* batch shapes: no batch axis, one, or two, each of 0 to MaxBatchLen entries
BatchShapes ==
    {<<>>} \cup {<<b>> : b \in 0..MaxBatchLen}
           \cup {<<b1, b2>> : b1 \in 0..MaxBatchLen, b2 \in 0..MaxBatchLen}

\* space_dim of the image space for matrices of size n
space_dim(n) == (n * (n + 1)) \div 2 - 1

\* batches of vectors: all entries different from one another, rising or
\* falling through the whole batch, or the same vector at every batch index
BatchedVecs(n) ==
    UNION {{[shape |-> batch \o <<space_dim(n)>>,
             data  |-> [p \in 0..(size(batch) * space_dim(n) - 1) |->
                           IF kind = "rising" THEN (p + 1) * Step
                           ELSE IF kind = "falling" THEN 0 - (p + 1) * Step
                           ELSE ((p % space_dim(n)) + 2) * Step]] :
            kind \in {"rising", "falling", "same"}} :
           batch \in BatchShapes}

InitDiffeo ==
    /\ call = "none"
    /\ \E n \in 2..MaxN :
        /\ base_point \in Mats(n)
        /\ point = diffeomorphism(Ramp(n), n)
        /\ tangent_vec = Ramp(n)
        /\ result = Ramp(n)

\* diffeo.diffeomorphism(base_point)
Diffeomorphism ==
    /\ call = "none"
    /\ call' = "diffeomorphism"
    /\ result' = diffeomorphism(base_point, n_of(base_point))
    /\ UNCHANGED <<base_point, point, tangent_vec>>

\* diffeo.inverse_diffeomorphism(image_point), the image point kept in point
InverseDiffeomorphism ==
    /\ call = "none"
    /\ \E mat \in Mats(n_of(base_point)) :
        /\ call' = "inverse_diffeomorphism"
        /\ point' = diffeomorphism(mat, n_of(base_point))
        /\ result' = inverse_diffeomorphism(point', n_of(base_point))
    /\ UNCHANGED <<base_point, tangent_vec>>

\* diffeo.tangent_diffeomorphism(tangent_vec, base_point)
TangentDiffeomorphism ==
    /\ call = "none"
    /\ \E tv \in Tangents(n_of(base_point)) :
        /\ call' = "tangent_diffeomorphism"
        /\ tangent_vec' = tv
        /\ result' = tangent_diffeomorphism(tv, base_point, n_of(base_point))
    /\ UNCHANGED <<base_point, point>>

\* diffeo.inverse_tangent_diffeomorphism(image_tangent_vec, image_point), the
\* image tangent vector kept in tangent_vec and the image of the base point
\* in point
InverseTangentDiffeomorphism ==
    /\ call = "none"
    /\ \E tv \in Tangents(n_of(base_point)) :
        /\ call' = "inverse_tangent_diffeomorphism"
        /\ tangent_vec' = diffeomorphism(tv, n_of(base_point))
        /\ point' = diffeomorphism(base_point, n_of(base_point))
        /\ result' = inverse_tangent_diffeomorphism(tangent_vec', point',
                                                    n_of(base_point))
    /\ UNCHANGED base_point

\* diffeo._from_product_to_mat(vec, ones), the arguments kept in point
FromProductToMat ==
    /\ call = "none"
    /\ \E vec \in BatchedVecs(n_of(base_point)), ones \in BOOLEAN :
        /\ call' = "_from_product_to_mat"
        /\ point' = [vec |-> vec, ones |-> ones]
        /\ result' = _from_product_to_mat_batch(vec, ones, n_of(base_point))
    /\ UNCHANGED <<base_point, tangent_vec>>

\* space.belongs(point), the point being the base point at hand
UnitNormedRowsBelongs ==
    /\ call = "none"
    /\ call' = "belongs"
    /\ result' = UnitNormedRows_belongs(base_point, n_of(base_point))
    /\ UNCHANGED <<base_point, point, tangent_vec>>

NextDiffeo ==
    \/ Diffeomorphism
    \/ InverseDiffeomorphism
    \/ TangentDiffeomorphism
    \/ InverseTangentDiffeomorphism
    \/ FromProductToMat
    \/ UnitNormedRowsBelongs

SpecDiffeo == InitDiffeo /\ [][NextDiffeo]_vars

(***************************************************************************)
(* SymmetricMatrices.basis_representation and matrix_representation        *)
(* (geomstats/geometry/symmetric_matrices.py).                             *)
(*                                                                         *)
(* Entries are fixed-point numbers, multiples of Step, whose halves are    *)
(* exact as the halves of floats are.  The argument of a call is a record  *)
(* of its number of axes and of its items: the one vector or matrix when   *)
(* it is not a batch, the vectors or matrices along the first axis when    *)
(* it is one.  Vectors and matrices are indexed from 0; index lists are    *)
(* tuples of pairs (row, column).                                          *)
(***************************************************************************)
\* gs.triu_indices(n) zipped: the pairs of the upper triangle, row by row,
\* from row `from` on
RECURSIVE triu_indices_from(_, _)
triu_indices_from(from, n) ==
    IF from >= n THEN <<>>
    ELSE [c \in 1..(n - from) |-> <<from, from + c - 1>>]
         \o triu_indices_from(from + 1, n)

triu_indices(n) == triu_indices_from(0, n)

\* gs.triu_to_vec of one matrix
triu_to_vec(mat, n) ==
    [p \in 0..(Len(triu_indices(n)) - 1) |-> mat[triu_indices(n)[p + 1]]]

\* SymmetricMatrices.basis_representation
basis_representation(matrix_representation_) ==
    [ndim  |-> matrix_representation_.ndim - 1,
     items |-> [k \in 1..Len(matrix_representation_.items) |->
                   triu_to_vec(matrix_representation_.items[k],
                               n_of(matrix_representation_.items[k]))]]

\* integer part of gs.sqrt
int_sqrt(x) == CHOOSE s \in 0..x : s * s <= x /\ x < (s + 1) * (s + 1)

\* Matrices.to_symmetric: the average of a matrix and its transpose
to_symmetric(mat, n) ==
    [i \in 0..(n - 1), j \in 0..(n - 1) |-> (mat[i, j] + mat[j, i]) \div 2]

\* a mask of ones
mask_ones(n) == [i \in 0..(n - 1), j \in 0..(n - 1) |-> 1]

\* mask = 2 * gs.ones(shape) - gs.eye(mat_dim)
mask(n) == [i \in 0..(n - 1), j \in 0..(n - 1) |-> 2 * 1 - (IF i = j THEN 1 ELSE 0)]

\* Matrices.to_symmetric(upper_triangular) * mask, for one matrix
symmetric_times_mask(upper_triangular, n) ==
    [i \in 0..(n - 1), j \in 0..(n - 1) |->
        to_symmetric(upper_triangular, n)[i, j] * mask(n)[i, j]]

\* SymmetricMatrices.matrix_representation
matrix_representation(basis_representation_) ==
    LET vec_dim == len(basis_representation_.items[1])
        root    == int_sqrt(8 * vec_dim + 1)
        \* mat_dim = (sqrt(8 vec_dim + 1) - 1) / 2 is a whole number
        whole   == root * root = 8 * vec_dim + 1 /\ (root - 1) % 2 = 0
        mat_dim == (root - 1) \div 2
        indices == triu_indices(mat_dim)
    IN  IF ~whole THEN [raised |-> TRUE, value |-> "ValueError"]
        ELSE IF basis_representation_.ndim = 1
        THEN [raised |-> FALSE,
              value  |-> [ndim  |-> 2,
                          items |-> <<symmetric_times_mask(
                                        array_from_sparse(
                                            indices,
                                            basis_representation_.items[1],
                                            mat_dim),
                                        mat_dim)>>]]
        ELSE [raised |-> FALSE,
              value  |-> [ndim  |-> 3,
                          items |-> [k \in 1..Len(basis_representation_.items) |->
                                        symmetric_times_mask(
                                            array_from_sparse(
                                                indices,
                                                basis_representation_.items[k],
                                                mat_dim),
                                            mat_dim)]]]

(***************************************************************************)
(* Inputs and state machine of the symmetric matrices.  Vectors have 1 to  *)
(* MaxVecDim entries, so that some lengths are n (n + 1) / 2 and some are  *)
(* not; a batch has 1 to MaxBatch items.                                   *)
(***************************************************************************)
MaxVecDim == 6

\* the vector Step, 2 Step, 3 Step, ... and the vectors of entries 0 and 0.3
RampVec(d) == [p \in 0..(d - 1) |-> (p + 1) * 2 * Step]

Vecs(d) == [0..(d - 1) -> {0, 3 * Step}] \cup {RampVec(d)}

\* vectors that make up batches
BatchVecs(d) == {RampVec(d), flip(RampVec(d)), [p \in 0..(d - 1) |-> -Unit]}

BasisInputs ==
    UNION {{[ndim |-> 1, items |-> <<v>>] : v \in Vecs(d)}
           \cup {[ndim |-> 2, items |-> b] :
                    b \in UNION {[1..k -> BatchVecs(d)] : k \in 1..MaxBatch}} :
           d \in 1..MaxVecDim}

\* the symmetric matrix whose upper triangle, row by row, is the vector
sym_of(vec, n) ==
    [i \in 0..(n - 1), j \in 0..(n - 1) |->
        LET r == IF i <= j THEN i ELSE j
            c == IF i <= j THEN j ELSE i
        IN  vec[r * n - (r * (r - 1)) \div 2 + (c - r)]]

\* matrices handed to basis_representation: symmetric ones, and the ramp
\* with a changed entry below the diagonal, which is not symmetric
MatrixInputs ==
    UNION {LET d == (n * (n + 1)) \div 2
           IN  {[ndim |-> 2, items |-> <<sym_of(v, n)>>] : v \in Vecs(d)}
               \cup {[ndim |-> 2,
                      items |-> <<[i \in 0..(n - 1), j \in 0..(n - 1) |->
                                     IF i = n - 1 /\ j = 0 /\ n > 1 THEN -Unit
                                     ELSE sym_of(RampVec(d), n)[i, j]]>>]}
               \cup {[ndim |-> 3, items |-> [k \in DOMAIN b |-> sym_of(b[k], n)]] :
                        b \in UNION {[1..k -> BatchVecs(d)] : k \in 1..MaxBatch}} :
           n \in {m \in 1..MaxVecDim : (m * (m + 1)) \div 2 <= MaxVecDim}}

InitSymmetric ==
    /\ call = "none"
    /\ point = [ndim |-> 1, items |-> <<RampVec(1)>>]
    /\ base_point = <<>>
    /\ tangent_vec = <<>>
    /\ result = [raised |-> FALSE, value |-> <<>>]

\* SymmetricMatrices.matrix_representation(basis_representation)
MatrixRepresentation ==
    /\ call = "none"
    /\ \E arg \in BasisInputs :
        /\ call' = "matrix_representation"
        /\ point' = arg
        /\ result' = matrix_representation(arg)
    /\ UNCHANGED <<base_point, tangent_vec>>

\* SymmetricMatrices.basis_representation(matrix_representation)
BasisRepresentation ==
    /\ call = "none"
    /\ \E arg \in MatrixInputs :
        /\ call' = "basis_representation"
        /\ point' = arg
        /\ result' = [raised |-> FALSE, value |-> basis_representation(arg)]
    /\ UNCHANGED <<base_point, tangent_vec>>

NextSymmetric ==
    \/ MatrixRepresentation
    \/ BasisRepresentation

SpecSymmetric == InitSymmetric /\ [][NextSymmetric]_vars

(***************************************************************************)
(* Properties.  Helpers used only to state them come first.                *)
(***************************************************************************)
\* how far, in whole units, representatives outside the 3 x 3 block are searched
Reach == 2

\* whole numbers large enough to divide any difference of two input coordinates
Wholes == (-(2 * MaxHalf + 2))..(2 * MaxHalf + 2)

is_integer(d) == \E k \in Wholes : d = k * Unit

is_even_integer(d) == \E k \in Wholes : d = 2 * k * Unit

is_odd_integer(d) == \E k \in Wholes : d = (2 * k + 1) * Unit

\* the relation of the class description, on exact values: (x1,y1) ~ (x2,y2)
related(a, b) ==
    \/ is_even_integer(a[1] - b[1]) /\ is_integer(a[2] - b[2])
    \/ is_odd_integer(a[1] - b[1]) /\ is_integer(a[2] + b[2])

\* x mod 1 as the real number it is: the r in [0, 1) with x - r an integer
mod_1(x) == CHOOSE r \in 0..(Unit - 1) : is_integer(x - r)

\* a point whose coordinates are multiples of Step: sums and differences of
\* such points are exact
exact(p) == p[1] % Step = 0 /\ p[2] % Step = 0

\* the representative selected by the log call of the current state
selected == _closest_representative(base_point, point)[2]

\* C1: regularize is idempotent: regularizing what regularize returned, for a
\* point of any sign and magnitude, gives the same point back.
C1_RegularizeIdempotent ==
    call = "regularize" => regularize(result) = result

\* C2: membership closure: both coordinates of regularize(p) lie in [0, 1].
C2_RegularizeBelongs ==
    call = "regularize" => belongs(result)

\* a point outside the unit square, left of and above it, was regularized
C2_Witness ==
    /\ call = "regularize"
    /\ ~belongs(point)
    /\ point[1] < 0 /\ point[2] > Unit
    /\ belongs(result)

\* C3: the representative log selects is one of the 9 candidates built from
\* regularize(point), none of the 9 is closer to regularize(base_point), and
\* log returns that representative minus regularize(base_point).
C3_ClosestOfNine ==
    call = "log" =>
        \A rep \in {_closest_representative(base_point, point)},
           p1 \in {regularize(base_point)},
           cands \in {p2_total(regularize(point))} :
            /\ rep[1] = p1
            /\ \E k \in 1..9 : cands[k] = rep[2]
            /\ \A k \in 1..9 : sq_dist(rep[2], p1) <= sq_dist(cands[k], p1)
            /\ result = <<sub(rep[2][1], p1[1]), sub(rep[2][2], p1[2])>>

\* log selected a mirrored neighbour strictly closer than the point itself
C3_Witness ==
    /\ call = "log"
    /\ selected[1] # regularize(point)[1]
    /\ sq_dist(selected, regularize(base_point))
         < sq_dist(regularize(point), regularize(base_point))
    /\ result = <<sub(selected[1], regularize(base_point)[1]),
                  sub(selected[2], regularize(base_point)[2])>>

\* C4: no representative of point in the plane, (x+2m, y+n) or (x+2m+1, n-y),
\* is strictly closer to regularize(base_point) than the one log selected.
C4_NineSuffice ==
    call = "log" =>
        \A p1 \in {regularize(base_point)}, p2 \in {regularize(point)},
           best \in {sq_dist(selected, regularize(base_point))} :
            \* the squares of the coordinate differences to p1, by kind
            \A dx2 \in {{sub(add(p2[1], 2 * m * Unit), p1[1]) ^ 2 :
                            m \in (-Reach)..Reach}},
               dy2 \in {{sub(add(p2[2], n * Unit), p1[2]) ^ 2 :
                            n \in (-Reach)..Reach}},
               dx2_mirrored \in {{sub(add(p2[1], (2 * m + 1) * Unit), p1[1]) ^ 2 :
                                     m \in (-Reach)..Reach}},
               dy2_mirrored \in {{sub(sub(n * Unit, p2[2]), p1[2]) ^ 2 :
                                     n \in (-Reach)..Reach}} :
                /\ \A a \in dx2, b \in dy2 : fl_sq(a + b) >= best
                /\ \A a \in dx2_mirrored, b \in dy2_mirrored : fl_sq(a + b) >= best

\* log selected the candidate (x - 1, 2 - y) or (x + 1, 2 - y), a corner of
\* the 3 x 3 block, and it is strictly closer than the point itself
C4_Witness ==
    /\ call = "log"
    /\ selected[2] = sub(2 * Unit, regularize(point)[2])
    /\ selected[1] # regularize(point)[1]
    /\ regularize(point)[2] > Step
    /\ sq_dist(selected, regularize(base_point))
         < sq_dist(regularize(point), regularize(base_point))

\* C5: round trip: exp(log(point, base_point), base_point) is equivalent to
\* point under KleinBottle.equivalent.
C5_ExpLogEquivalent ==
    call = "log" => equivalent(exp(result, base_point), point, gs_atol)

\* the round trip from arguments outside the unit square does not return
\* the point's own coordinates, only an equivalent point
C5_Witness ==
    /\ call = "log"
    /\ ~belongs(point) /\ ~belongs(base_point)
    /\ result # Origin
    /\ exp(result, base_point) # point
    /\ equivalent(exp(result, base_point), point, gs_atol)

\* C6: equivalence is consistent with regularization: equivalent(p, q) returns
\* the same boolean as equivalent(regularize(p), regularize(q)).
C6_EquivalentRegularized ==
    call = "equivalent" =>
        result = equivalent(regularize(point), regularize(base_point), gs_atol)

\* two equivalent points, neither canonical, on squares of different x parity
C6_Witness ==
    /\ call = "equivalent"
    /\ result = TRUE
    /\ point # base_point
    /\ regularize(point) # point /\ regularize(base_point) # base_point
    /\ abs(floor(point[1])) % 2 # abs(floor(base_point[1])) % 2

\* C7: equivalent decides the stated relation on points whose differences are
\* exact: it is true iff (x difference even and y difference an integer) or (x
\* difference odd and y sum an integer); equivalent((0,0),(2,0)) is true,
\* equivalent((0,0),(1,0.5)) false.
C7_EquivalentDecidesRelation ==
    (call = "equivalent" /\ exact(point) /\ exact(base_point)) =>
        /\ result = related(point, base_point)
        /\ (point = Origin /\ base_point = <<2 * Unit, 0>>) => result = TRUE
        /\ (point = Origin /\ base_point = <<Unit, 5 * Step>>) => result = FALSE

\* the second scenario: odd x difference, y sum 0.5, reported not equivalent
C7_Witness ==
    /\ call = "equivalent"
    /\ point = Origin /\ base_point = <<Unit, 5 * Step>>
    /\ result = FALSE

\* C8: equivalent is reflexive and symmetric, negative coordinates and
\* differences included.
C8_EquivalentReflexiveSymmetric ==
    call = "equivalent" =>
        /\ equivalent(point, point, gs_atol)
        /\ equivalent(base_point, base_point, gs_atol)
        /\ result = equivalent(base_point, point, gs_atol)

\* equivalent points through the mirrored leg with x difference -3
C8_Witness ==
    /\ call = "equivalent"
    /\ result = TRUE
    /\ point[1] - base_point[1] = 0 - 3 * Unit
    /\ point[2] < 0
    /\ equivalent(base_point, point, gs_atol)

\* C9: regularize((x, y)) is (x mod 1, y mod 1) when |floor(x)| is even and
\* (x mod 1, (1 - (y mod 1)) mod 1) when it is odd, mod taking values in
\* [0, 1); regularize((1.5, 0.3)) is (0.5, 0.7).
C9_RegularizeFormula ==
    call = "regularize" =>
        LET k  == CHOOSE w \in Wholes :
                      w * Unit <= point[1] /\ point[1] < (w + 1) * Unit
            xm == mod_1(point[1])
            ym == mod_1(point[2])
            yo == mod_1(sub(Unit, ym))
        IN  /\ result = IF is_even_integer(abs(k) * Unit)
                        THEN <<xm, ym>> ELSE <<xm, yo>>
            /\ point = <<15 * Step, 3 * Step>> => result = <<5 * Step, 7 * Step>>

\* C10: exp(tangent_vec, base_point) is regularize(regularize(base_point) +
\* tangent_vec), and belongs to the manifold.
C10_ExpFormula ==
    call = "exp" =>
        LET b == regularize(base_point)
        IN  /\ result = regularize(<<add(b[1], tangent_vec[1]),
                                     add(b[2], tangent_vec[2])>>)
            /\ belongs(result)

\* exp from a base point on an odd square of negative x, leaving the unit square
C10_Witness ==
    /\ call = "exp"
    /\ base_point[1] < 0 /\ abs(floor(base_point[1])) % 2 = 1
    /\ regularize(base_point)[2] # base_point[2]
    /\ tangent_vec[1] > Unit /\ tangent_vec[2] < 0
    /\ belongs(result)

C12_CholeskyExpLogInverse ==
    /\ (/\ call = "exp"
        /\ PLT_belongs(base_point)
        /\ is_lower_triangular(tangent_vec, atol))
       => Cholesky_log(result, base_point) = tangent_vec
    /\ (/\ call = "log"
        /\ PLT_belongs(base_point)
        /\ PLT_belongs(point))
       => Cholesky_exp(result, base_point) = point

\* a tangent matrix with non-zero diagonal and lower part, at a base point
\* whose diagonal is not the identity's, came back from log after exp
C12_Witness ==
    /\ call = "exp"
    /\ PLT_belongs(base_point)
    /\ base_point[1, 1] = sc(1, 1)
    /\ tangent_vec[1, 1] = sc(-2, 1)
    /\ tangent_vec[2, 1] = sc(2, 0)
    /\ tangent_vec[1, 2] = Zero
    /\ Cholesky_log(result, base_point) = tangent_vec

\* C13: the squared Cholesky distance of two points of the space is never
\* negative, and it is zero exactly when the two points are equal.
C13_SquaredDistDefinite ==
    (/\ call = "squared_dist"
     /\ PLT_belongs(point)
     /\ PLT_belongs(base_point))
    => /\ result.k = 0
       /\ result.q >= 0
       /\ result = Zero <=> point = base_point

\* two points with the same diagonal and different lower parts are at a
\* positive distance
C13_Witness ==
    /\ call = "squared_dist"
    /\ PLT_belongs(point)
    /\ PLT_belongs(base_point)
    /\ diagonal(point) = diagonal(base_point)
    /\ point # base_point
    /\ result.q > 0

\* C14: the Cholesky exponential stays in the space: at a base point b with
\* positive diagonal and for any tangent matrix v, exp(v, b) is lower
\* triangular with positive diagonal, its strictly lower part is the sum of
\* those of b and v, its diagonal is diag(b) * exp(diag(v) / diag(b)), and
\* where the diagonal of v is zero the diagonal of b is kept.
C14_ExpStaysInManifold ==
    call = "exp" =>
        /\ PLT_belongs(result)
        /\ \A i \in 1..N, j \in 1..N :
               /\ i > j => result[i, j] = plus(base_point[i, j], tangent_vec[i, j])
               /\ i < j => result[i, j] = Zero
        /\ \A i \in 1..N :
               /\ result[i, i] = sc(1, base_point[i, i].k + tangent_vec[i, i].q)
               /\ tangent_vec[i, i] = Zero => result[i, i] = base_point[i, i]

\* a tangent matrix that is not lower triangular, with one diagonal entry
\* zero and the other the negative of twice the base point's
C14_Witness ==
    /\ call = "exp"
    /\ tangent_vec[1, 2] = One
    /\ tangent_vec[1, 1] = Zero
    /\ tangent_vec[2, 2].q = -2
    /\ base_point[2, 2] = sc(1, 1)
    /\ result[2, 2] = sc(1, -1)

\* C15: projection maps any square matrix, whatever its diagonal and its
\* upper triangle, to a matrix of the space whose strictly lower part is the
\* input's and whose diagonal is max(|m_ii|, atol).
C15_ProjectionBelongs ==
    call = "projection" =>
        /\ PLT_belongs(result)
        /\ \A i \in 1..N, j \in 1..N :
               /\ i > j => result[i, j] = point[i, j]
               /\ i < j => result[i, j] = Zero
        /\ \A i \in 1..N :
               result[i, i] =
                   IF point[i, i] = Zero \/ point[i, i].k < atol_exp
                   THEN atol
                   ELSE sc(1, point[i, i].k)

\* a matrix with a zero and a negative diagonal entry and a non-zero entry
\* above the diagonal was projected
C15_Witness ==
    /\ call = "projection"
    /\ point[1, 1] = Zero
    /\ point[2, 2] = sc(-1, 1)
    /\ point[1, 2] = One
    /\ result[1, 1] = atol
    /\ result[2, 2] = sc(1, 1)

\* a positive lower triangular matrix all of whose rows, row 0 included,
\* have unit norm: a point of the unit-normed-rows space
unit_normed_plt(mat, n) ==
    /\ \A i \in 0..(n - 1), j \in 0..(n - 1) : i < j => mat[i, j] = 0
    /\ \A i \in 0..(n - 1) :
           /\ mat[i, i] > 0
           /\ sq_norm([j \in 0..i |-> mat[i, j]], i) = Unit * Unit

\* a lower triangular matrix whose entry [0, 0] is zero, as every tangent
\* vector of the space is
tangent_like(mat, n) ==
    /\ \A i \in 0..(n - 1), j \in 0..(n - 1) : i < j => mat[i, j] = 0
    /\ mat[0, 0] = 0

\* a * u + b * v for two arrays of the same shape
lin(a, u, b, v) == [i \in DOMAIN u |-> a * u[i] + b * v[i]]

\* C16: the diffeomorphism round-trips for every matrix size: for a point p
\* of the space inverse_diffeomorphism(diffeomorphism(p)) is p, and for a
\* tangent vector v inverse_tangent_diffeomorphism(tangent_diffeomorphism(v))
\* is v.
C16_DiffeoRoundTrip ==
    /\ (call = "diffeomorphism" /\ unit_normed_plt(base_point, n_of(base_point)))
       => inverse_diffeomorphism(result, n_of(base_point)) = base_point
    /\ (call = "tangent_diffeomorphism"
        /\ tangent_like(tangent_vec, n_of(base_point)))
       => inverse_tangent_diffeomorphism(result, point, n_of(base_point))
            = tangent_vec

\* a 3 x 3 point with two rows that are not rows of the identity went to the
\* image space and came back
C16_Witness ==
    /\ call = "diffeomorphism"
    /\ n_of(base_point) = 3
    /\ unit_normed_plt(base_point, 3)
    /\ base_point[1, 0] = 6 * Step
    /\ base_point[2, 1] = -8 * Step
    /\ result = (0 :> 8 * Step @@ 1 :> 6 * Step
                 @@ 2 :> 6 * Step @@ 3 :> -8 * Step @@ 4 :> 0)
    /\ inverse_diffeomorphism(result, 3) = base_point

\* C17: the tangent maps of the diffeomorphism are linear in the vector, in
\* both directions, and do not depend on the base point:
\* tangent_diffeomorphism(a u + b v) = a tangent_diffeomorphism(u)
\* + b tangent_diffeomorphism(v), and likewise for the inverse tangent map.
C17_TangentMapsLinear ==
    /\ call = "tangent_diffeomorphism" =>
        \A nn \in {n_of(base_point)} :
            /\ \A other \in {[i \in 0..(nn - 1), j \in 0..(nn - 1) |->
                                 IF i = j THEN Unit ELSE 0]} :
                   tangent_diffeomorphism(tangent_vec, other, nn) = result
            /\ \A v \in {Ramp(nn)} \cup Sparse(nn, 1),
                  ab \in {<<1, 1>>, <<2, -1>>, <<-3, 0>>} :
                   tangent_diffeomorphism(lin(ab[1], tangent_vec, ab[2], v),
                                          base_point, nn)
                     = lin(ab[1], result,
                           ab[2], tangent_diffeomorphism(v, base_point, nn))
    /\ call = "inverse_tangent_diffeomorphism" =>
        \A nn \in {n_of(base_point)} :
            /\ \A other \in {diffeomorphism(Ramp(nn), nn)} :
                   inverse_tangent_diffeomorphism(tangent_vec, other, nn) = result
            /\ \A v \in {Ramp(nn)} \cup Sparse(nn, 1),
                  ab \in {<<1, 1>>, <<2, -1>>, <<-3, 0>>} :
                   \A w \in {diffeomorphism(v, nn)} :
                       inverse_tangent_diffeomorphism(
                           lin(ab[1], tangent_vec, ab[2], w), point, nn)
                         = lin(ab[1], result,
                               ab[2],
                               inverse_tangent_diffeomorphism(w, point, nn))

\* the inverse tangent map was applied to the image of the ramp matrix at a
\* base point that is not the identity, and gave a matrix with entry [0, 0]
\* zero
C17_Witness ==
    /\ call = "inverse_tangent_diffeomorphism"
    /\ n_of(base_point) = 3
    /\ base_point[1, 0] # 0
    /\ tangent_vec = diffeomorphism(Ramp(3), 3)
    /\ result = Ramp(3)

\* C18: belongs of the unit-normed-rows space is true only for positive
\* lower triangular matrices in which every row has unit norm, row 0
\* included, so that point[0, 0] is 1.
C18_BelongsUnitRows ==
    (call = "belongs" /\ result = TRUE)
        => unit_normed_plt(base_point, n_of(base_point))

all_symmetric(arg) ==
    \A k \in 1..Len(arg.items) :
        \A ij \in DOMAIN arg.items[k] :
            arg.items[k][ij] = arg.items[k][<<ij[2], ij[1]>>]

\* C20: matrix_representation and basis_representation are mutually
\* inverse: taking the matrix of a vector of the basis and reading its upper
\* triangle gives the vector back, and rebuilding a symmetric matrix from
\* its upper triangle gives the matrix back, for a single argument and for
\* each item of a batch.
C20_RepresentationsInverse ==
    /\ (call = "matrix_representation" /\ ~result.raised) =>
        /\ all_symmetric(result.value)
        /\ basis_representation(result.value) = point
    /\ (call = "basis_representation" /\ all_symmetric(point)) =>
        /\ ~matrix_representation(result.value).raised
        /\ matrix_representation(result.value).value = point

\* a batch of two vectors of six entries became two 3 x 3 symmetric
\* matrices with the entries of the vectors off the diagonal
C20_Witness ==
    /\ call = "matrix_representation"
    /\ point.ndim = 2
    /\ Len(point.items) = 2
    /\ len(point.items[1]) = 6
    /\ point.items[1] # point.items[2]
    /\ ~result.raised
    /\ result.value.items[1][1, 0] = point.items[1][1]
    /\ result.value.items[2][2, 1] = point.items[2][4]
    /\ result.value.items[1][1, 0] # 0

\* res is the difference to regularize(base) of the first candidate of pt
\* that is at the minimal squared distance, the 9 candidates taken in the
\* fixed order (x,y), (x,y-1), (x,y+1), (x+1,1-y), (x+1,2-y), (x+1,-y),
\* (x-1,1-y), (x-1,2-y), (x-1,-y)
is_first_minimal(res, pt, base) ==
    \A p1 \in {regularize(base)}, total \in {p2_total(regularize(pt))} :
        \E k \in 1..9 :
            /\ res = <<sub(total[k][1], p1[1]), sub(total[k][2], p1[2])>>
            /\ \A j \in 1..9 : sq_dist(total[k], p1) <= sq_dist(total[j], p1)
            /\ \A j \in 1..(k - 1) : sq_dist(total[j], p1) # sq_dist(total[k], p1)

\* two candidates of pt that are different points are both at the minimal
\* distance from regularize(base)
has_tie(pt, base) ==
    \A p1 \in {regularize(base)}, total \in {p2_total(regularize(pt))} :
        \E k \in 1..9, m \in 1..9 :
            /\ total[k] # total[m]
            /\ sq_dist(total[k], p1) = sq_dist(total[m], p1)
            /\ \A j \in 1..9 : sq_dist(total[k], p1) <= sq_dist(total[j], p1)

\* C21: when several of the 9 candidates are at the same minimal squared
\* distance from regularize(base_point), log selects the one of smallest
\* index in the fixed order, for a single point and independently for each
\* element of a batch.
C21_FirstMinimalIndex ==
    /\ call = "log" => is_first_minimal(result, point, base_point)
    /\ call = "log_batch" =>
           \A i \in DOMAIN point :
               /\ is_first_minimal(result[i], point[i], base_point)
               /\ result[i] = log(point[i], base_point)

\* in one batch, the first element has two different candidates at the
\* minimal distance, the second has not, and the two results differ
C21_Witness ==
    /\ call = "log_batch"
    /\ has_tie(point[1], base_point)
    /\ ~has_tie(point[2], base_point)
    /\ result[1] # result[2]
    /\ regularize(point[2]) # point[2]

\* some other representatives of the class of p: a translate by (2, -1) and
\* two mirrored ones, (x + 1, 1 - y) and (x - 1, -y)
representatives(p) ==
    {<<p[1] + 2 * Unit, p[2] - Unit>>,
     <<p[1] + Unit, Unit - p[2]>>,
     <<p[1] - Unit, 0 - p[2]>>}

\* C22: regularize is a complete invariant of the equivalence relation: in
\* exact arithmetic regularize(p) = regularize(q) if and only if p and q are
\* related (x difference even and y difference an integer, or x difference
\* odd and y sum an integer); hence log gives the same result on equivalent
\* representatives of point and of base_point.
C22_RegularizeCompleteInvariant ==
    /\ (call = "equivalent" /\ exact(point) /\ exact(base_point)) =>
           (regularize(point) = regularize(base_point)
              <=> related(point, base_point))
    /\ (call = "log" /\ exact(point) /\ exact(base_point)) =>
           /\ \A other \in representatives(point) :
                  log(other, base_point) = result
           /\ \A other \in representatives(base_point) :
                  log(point, other) = result

\* two different related points, on squares of different x parity, neither
\* of them canonical, with the same regularized point
C22_Witness ==
    /\ call = "equivalent"
    /\ exact(point) /\ exact(base_point)
    /\ point # base_point
    /\ is_odd_integer(point[1] - base_point[1])
    /\ regularize(point) # point /\ regularize(base_point) # base_point
    /\ point[2] # 0 /\ point[2] # base_point[2]
    /\ regularize(point) = regularize(base_point)

\* C23: every point that belongs to the Klein bottle, both coordinates in
\* the closed interval [0, 1] with the boundary value 1 included, is its own
\* canonical representative, regularize(p) = p; so two different points that
\* both belong are never equivalent.  (Stated on exact points, where the
\* tolerance of equivalent plays no part.)
C23_BelongsIsCanonical ==
    /\ (call = "belongs" /\ exact(point) /\ result = TRUE) =>
           regularize(point) = point
    /\ (/\ call = "equivalent"
        /\ exact(point) /\ exact(base_point)
        /\ belongs(point) /\ belongs(base_point)
        /\ point # base_point)
       => result = FALSE

\* C23, amended: every point with both coordinates in [0, 1), the boundary
\* value 1 left out, belongs and is its own canonical representative, and two
\* different such points are never equivalent.
C23_InsideIsCanonical ==
    /\ (/\ call = "belongs" /\ exact(point) /\ result = TRUE
        /\ point[1] < Unit /\ point[2] < Unit)
       => regularize(point) = point
    /\ (/\ call = "equivalent"
        /\ exact(point) /\ exact(base_point)
        /\ belongs(point) /\ belongs(base_point)
        /\ point[1] < Unit /\ point[2] < Unit
        /\ base_point[1] < Unit /\ base_point[2] < Unit
        /\ point # base_point)
       => result = FALSE

\* a point inside the square, away from its edges, was found to belong, and
\* regularize leaves it as it is
C23_Witness ==
    /\ call = "belongs"
    /\ result = TRUE
    /\ exact(point)
    /\ point[1] > 0 /\ point[1] < Unit
    /\ point[2] > 0 /\ point[2] < Unit
    /\ point[1] # point[2]
    /\ regularize(point) = point

\* the squared Euclidean norm of a vector of the plane
squared_norm(v) == v[1] * v[1] + v[2] * v[2]

\* C24: the squared Euclidean norm of log(p, q) equals that of log(q, p), for
\* all points p and q.
C24_LogNormSymmetric ==
    call = "log" =>
        squared_norm(result) = squared_norm(log(base_point, point))

\* the vector at place b of a batch, alone
vector_at(vec, b) ==
    [i \in 0..(last_axis(vec) - 1) |-> vec.data[b * last_axis(vec) + i]]

\* the place of the entry (i, j) of the lower triangle when the entries are
\* taken by decreasing row and, within a row, by increasing column
rank_by_row_descending(i, j, n) ==
    (n * (n + 1)) \div 2 - ((i + 1) * (i + 2)) \div 2 + j

\* C25: _from_product_to_mat on a batch of vectors, with no batch axis, one
\* or two, gives the stack of its results on each vector alone: the matrix at
\* a batch index holds the values of its own vector only, the flipped vector
\* laid along the lower triangle by decreasing row and increasing column,
\* with 1 (ones) or 0 (no ones) at entry (0, 0) and zeros above the diagonal.
C25_BatchConsistency ==
    call = "_from_product_to_mat" =>
        \A n \in {n_of(base_point)} :
            /\ result.shape = batch_shape_of(point.vec) \o <<n, n>>
            /\ \A b \in 0..(size(batch_shape_of(point.vec)) - 1) :
                   \A own \in {vector_at(point.vec, b)} :
                       \A alone \in {_from_product_to_mat(own, point.ones, n)} :
                           \A i \in 0..(n - 1), j \in 0..(n - 1) :
                               /\ result.data[(b * n + i) * n + j] = alone[i, j]
                               /\ result.data[(b * n + i) * n + j] =
                                      IF j > i THEN 0
                                      ELSE IF i = 0 THEN (IF point.ones THEN Unit ELSE 0)
                                      ELSE own[space_dim(n) - 1
                                               - rank_by_row_descending(i, j, n)]

\* a batch with two axes of two vectors each, all four vectors different,
\* was turned into matrices of size 3 with 0 at entry (0, 0), and the first
\* and the last matrix differ
C25_Witness ==
    /\ call = "_from_product_to_mat"
    /\ n_of(base_point) = 3
    /\ batch_shape_of(point.vec) = <<2, 2>>
    /\ ~point.ones
    /\ \A b1 \in 0..3, b2 \in 0..3 :
           b1 # b2 => vector_at(point.vec, b1) # vector_at(point.vec, b2)
    /\ result.data[2 * 3 + 0] # result.data[(3 * 3 + 2) * 3 + 0]
    /\ result.data[2 * 3 + 0] = point.vec.data[4]

====
